---------------------------- MODULE Spec2Model ----------------------------
(***************************************************************************)
(* A model of the ts-combinator parser library (src/src/Parser.ts).        *)
(*                                                                         *)
(* A parser is a pure function (source, index) -> ParseResult.  Parsers    *)
(* are modelled as data (records tagged by the combinator that built       *)
(* them) and `Run` is the interpreter that computes what `.parse` returns. *)
(* The state machine draws a parser, a source and an offset from bounded   *)
(* sets and applies one combinator per step.                               *)
(*                                                                         *)
(* JavaScript values are modelled as tagged records so that values of      *)
(* different runtime types can be compared:                                *)
(*   [str |-> s]   a string          [arr |-> <<...>>]  an array           *)
(*   [num |-> n]   a number          [undef |-> TRUE]   undefined          *)
(* Source texts and failure messages are plain strings.                    *)
(***************************************************************************)
EXTENDS Integers, Sequences, FiniteSets, TLC

(***************************************************************************)
(* Bounds of the model.                                                    *)
(***************************************************************************)
MaxParsers == 3     \* longest argument list given to oneOf / sequence
MaxIndex == 2       \* largest input offset tried
MaxCallDepth == 3   \* call-stack frames of pratt's expr before RangeError
MaxIterations == 4  \* passes of a repetition's while loop that are followed

(***************************************************************************)
(* JavaScript values and string helpers.                                   *)
(***************************************************************************)
Str(s) == [str |-> s]
Arr(xs) == [arr |-> xs]
Num(n) == [num |-> n]
Undefined == [undef |-> TRUE]

IsUndefined(v) == "undef" \in DOMAIN v

Min(a, b) == IF a < b THEN a ELSE b
Max(a, b) == IF a > b THEN a ELSE b

\* String.prototype.slice(start, end) with 0-based, end-exclusive indices;
\* a negative index counts from the end, everything is clamped to the string.
Slice(str, start, end) ==
    LET n == Len(str)
        a == IF start < 0 THEN Max(n + start, 0) ELSE Min(start, n)
        b == IF end < 0 THEN Max(n + end, 0) ELSE Min(end, n)
    IN IF a >= b THEN "" ELSE SubSeq(str, a + 1, b)

\* String.prototype.charAt(i): "" outside the string.
CharAt(str, i) == IF i >= 0 /\ i < Len(str) THEN SubSeq(str, i + 1, i + 1) ELSE ""

RECURSIVE Spaces(_)
\* [...Array(n)].fill(" ").join("")
Spaces(n) == IF n <= 0 THEN "" ELSE " " \o Spaces(n - 1)

(***************************************************************************)
(* Result.ts and the ParseResult constructors.                            *)
(***************************************************************************)
ResultOk(value) == [variant |-> "Ok", value |-> value]
ResultErr(error) == [variant |-> "Err", error |-> error]
isOk(result) == result.variant = "Ok"
isErr(result) == result.variant = "Err"

ParseSuccess(parsed, index, source) ==
    ResultOk([parsed |-> parsed, index |-> index, source |-> source])

ParseErrorFlagged(message, backtrackable) ==
    ResultErr([message |-> message, backtrackable |-> backtrackable])

\* ParseError(message) with the default backtrackable = true
ParseError(message) == ParseErrorFlagged(message, TRUE)

\* An exception leaving a parse call: not a Result at all.
Thrown(name) == [variant |-> "Throw", thrown |-> name]
isThrown(result) == result.variant = "Throw"

\* A parse call whose loop is still running after MaxIterations passes: it
\* has returned nothing.
NoReturn == [variant |-> "NoReturn"]

(***************************************************************************)
(* Position tracker and error formatter.                                   *)
(***************************************************************************)
RECURSIVE LineAndColumnFrom(_, _, _, _, _)
\* the scan without the reset of the column at a newline
LineAndColumnFromNoReset(source, index, i, line, column) ==
    IF i >= index THEN <<line, column>>
    ELSE IF CharAt(source, i) = "\n"
         THEN LineAndColumnFrom(source, index, i + 1, line + 1, column + 1)
         ELSE LineAndColumnFrom(source, index, i + 1, line, column + 1)

LineAndColumnFrom(source, index, i, line, column) ==
    IF i >= index THEN <<line, column>>
    ELSE IF CharAt(source, i) = "\n"
         THEN LineAndColumnFrom(source, index, i + 1, line + 1, 1)
         ELSE LineAndColumnFrom(source, index, i + 1, line, column + 1)

getCurrentLineAndColumn(source, index) ==
    LineAndColumnFrom(source, index, 0, 1, 1)

RECURSIVE TruncateFrom(_, _)
TruncateFrom(str, i) ==
    IF i >= Len(str) THEN str
    ELSE IF CharAt(str, i) = "\n" THEN Slice(str, 0, i)
         ELSE TruncateFrom(str, i + 1)

\* the scan starts at i = 1: a newline that is the first character is kept
truncateToNextNewLine(str) == TruncateFrom(str, 1)

MaxPrevContextDefault == 10
MaxPostContextDefault == 10

getErrorMessageContext(source, index) ==
    LET lc == getCurrentLineAndColumn(source, index)
        line == lc[1]
        column == lc[2]
        maxPrevContext == IF column > 1
                          THEN Min(column - 1, MaxPrevContextDefault)
                          ELSE 0
        indentation == Spaces(maxPrevContext)
    IN << "Error at (line: " \o ToString(line) \o ", column: "
             \o ToString(column) \o ")",
          truncateToNextNewLine(
              Slice(source, index - maxPrevContext,
                    index + MaxPostContextDefault))
             \o "\n" \o indentation \o "^" >>

\* `${location}\nExpected <what> but got "<got>" instead\n\n${context}`
ExpectedMessage(source, index, what, got) ==
    LET lc == getErrorMessageContext(source, index)
    IN lc[1] \o "\nExpected " \o what \o " but got \"" \o got
          \o "\" instead\n\n" \o lc[2]

(***************************************************************************)
(* Regular-language matchers.  A RegExp is modelled by its shape:          *)
(*   star(C)    zero or more characters of class C  (greedy)               *)
(*   plus(C)    one or more characters of class C   (greedy)               *)
(*   single(C)  exactly one character of class C                           *)
(*   integer    optional sign, then a lone 0 or a non-zero digit followed  *)
(*              by digits                                                  *)
(*   number     integer, then optionally a dot and one or more digits      *)
(* RegExpExec gives the length of the match anchored at the start of the   *)
(* string, or -1 when exec returns null.                                   *)
(***************************************************************************)
Digit == {"0", "1", "2", "3", "4", "5", "6", "7", "8", "9"}
NonZeroDigit == Digit \ {"0"}
Lower == {"a", "b", "c", "d", "e", "f", "g", "h", "i", "j", "k", "l", "m",
          "n", "o", "p", "q", "r", "s", "t", "u", "v", "w", "x", "y", "z"}
Upper == {"A", "B", "C", "D", "E", "F", "G", "H", "I", "J", "K", "L", "M",
          "N", "O", "P", "Q", "R", "S", "T", "U", "V", "W", "X", "Y", "Z"}
Whitespace == {" ", "\t", "\n", "\r", "\f"}

RECURSIVE RunLength(_, _, _)
\* number of consecutive characters of class `cls` in str from position i
RunLength(str, i, cls) ==
    IF CharAt(str, i) \in cls THEN 1 + RunLength(str, i + 1, cls) ELSE 0

\* an integer body that may begin with zeros
IntegerBodyLengthLeadingZeros(str, i) ==
    IF CharAt(str, i) \in Digit THEN RunLength(str, i, Digit) ELSE -1

\* a lone 0, or a non-zero digit followed by digits, at position i
IntegerBodyLength(str, i) ==
    IF CharAt(str, i) = "0" THEN 1
    ELSE IF CharAt(str, i) \in NonZeroDigit
         THEN 1 + RunLength(str, i + 1, Digit)
         ELSE -1

\* optional sign, then the integer body; the sign is given up when no
\* integer body follows it
IntegerLength(str) ==
    IF CharAt(str, 0) \in {"+", "-"} /\ IntegerBodyLength(str, 1) >= 0
    THEN 1 + IntegerBodyLength(str, 1)
    ELSE IntegerBodyLength(str, 0)

\* optional fraction at position i: a dot and one or more digits
FractionLength(str, i) ==
    IF CharAt(str, i) = "." /\ RunLength(str, i + 1, Digit) >= 1
    THEN 1 + RunLength(str, i + 1, Digit)
    ELSE 0

RegExpExec(re, str) ==
    CASE re.kind = "star" -> RunLength(str, 0, re.class)
      [] re.kind = "plus" ->
            IF RunLength(str, 0, re.class) >= 1
            THEN RunLength(str, 0, re.class) ELSE -1
      [] re.kind = "single" -> IF CharAt(str, 0) \in re.class THEN 1 ELSE -1
      [] re.kind = "integer" -> IntegerLength(str)
      [] re.kind = "number" ->
            IF IntegerLength(str) < 0 THEN -1
            ELSE IntegerLength(str) + FractionLength(str, IntegerLength(str))

(***************************************************************************)
(* Parser values.  Each constructor builds the description of a parser;    *)
(* Run (below) is what its parse function computes.                        *)
(***************************************************************************)
exact(toMatch) == [t |-> "exact", toMatch |-> toMatch]
succeed(value) == [t |-> "succeed", value |-> value]
fail(err) == [t |-> "fail", err |-> err]
fromRegExp(re, expected) == [t |-> "fromRegExp", re |-> re, expected |-> expected]
oneOf(parsers) == [t |-> "oneOf", parsers |-> parsers]
map(func, parser) == [t |-> "map", func |-> func, parser |-> parser]
conditional(antecedent, consequent) ==
    [t |-> "conditional", antecedent |-> antecedent, consequent |-> consequent]
sequence(parsers) == [t |-> "sequence", parsers |-> parsers]
zeroOrMore(p) == [t |-> "zeroOrMore", parser |-> p]
oneOrMore(p) == [t |-> "oneOrMore", parser |-> p]
optional(p, defaultValue) ==
    [t |-> "optional", parser |-> p, defaultValue |-> defaultValue]
maybe(p) == [t |-> "maybe", parser |-> p]
\* lazy(factory) where factory() returns p
lazy(p) == [t |-> "lazy", factory |-> p]

spaces == fromRegExp([kind |-> "star", class |-> Whitespace], "whitespace")
digits == fromRegExp([kind |-> "plus", class |-> Digit], "digits")
singleDigit == fromRegExp([kind |-> "single", class |-> Digit], "a digit")
alpha == fromRegExp([kind |-> "plus", class |-> Lower \cup Upper], "characters")
alphaNum ==
    fromRegExp([kind |-> "plus", class |-> Lower \cup Upper \cup Digit],
               "alpha numeric characters")
integerPart == fromRegExp([kind |-> "integer"], "an integer")
numberString == fromRegExp([kind |-> "number"], "a number")

(***************************************************************************)
(* Maybe.ts: the two variants of a Maybe value.                            *)
(***************************************************************************)
Just(value) == [variant |-> "Just", value |-> value]
Nothing == [variant |-> "Nothing"]

(***************************************************************************)
(* JavaScript numbers.  The number written by a text of the number         *)
(* grammar is kept as its sign, the digits of its integer part and the     *)
(* digits of its fraction without trailing zeros.                          *)
(***************************************************************************)
RECURSIVE StripTrailingZeros(_)
StripTrailingZeros(digitText) ==
    IF digitText # "" /\ CharAt(digitText, Len(digitText) - 1) = "0"
    THEN StripTrailingZeros(Slice(digitText, 0, Len(digitText) - 1))
    ELSE digitText

\* Number(text) for a text matched by numberString
NumberOf(text) ==
    LET signed == CharAt(text, 0) \in {"+", "-"}
        body == IF signed THEN Slice(text, 1, Len(text)) ELSE text
        integerLength == RunLength(body, 0, Digit)
    IN [negative |-> CharAt(text, 0) = "-",
        integer |-> Slice(body, 0, integerLength),
        fraction |-> StripTrailingZeros(
                         Slice(body, integerLength + 1, Len(body)))]

\* every integer of at most this many digits is a safe integer
MaxSafeDigits == 15

\* Number.isSafeInteger(value)
isSafeInteger(value) ==
    value.fraction = "" /\ Len(value.integer) <= MaxSafeDigits

\* `${value}` for a number
NumberText(value) ==
    (IF value.negative /\ (value.integer # "0" \/ value.fraction # "")
     THEN "-" ELSE "")
       \o value.integer
       \o (IF value.fraction = "" THEN "" ELSE "." \o value.fraction)

(***************************************************************************)
(* Functions given to map.                                                 *)
(*   identity         x => x                                               *)
(*   Just             Maybe.Just                                           *)
(*   second           ([, x]) => x                                         *)
(*   toOperator       ([, symbol]) => ({ symbol, bindingPower })           *)
(***************************************************************************)
Identity == [f |-> "identity"]
MaybeJust == [f |-> "Just"]
NumberFunction == [f |-> "Number"]
Second == [f |-> "second"]
ToOperator(bindingPower) == [f |-> "toOperator", bindingPower |-> bindingPower]

Apply(func, v) ==
    CASE func.f = "identity" -> v
      [] func.f = "Just" -> Just(v)
      [] func.f = "Number" -> NumberOf(v.str)
      [] func.f = "second" -> v.arr[2]
      [] func.f = "toOperator" ->
            [symbol |-> v.arr[2], bindingPower |-> func.bindingPower]

number == map(NumberFunction, numberString)
int == [t |-> "int"]

toUnaryOperator(operatorSymbol, bindingPower) ==
    map(ToOperator(bindingPower), sequence(<<spaces, operatorSymbol, spaces>>))

toBinaryOperator(operatorSymbol, bindingPower) ==
    map(ToOperator(bindingPower), sequence(<<spaces, operatorSymbol, spaces>>))

(***************************************************************************)
(* The interpreter.  Run(p, source, index) is a record                     *)
(*   out   |-> what p.parse(source, index) returns                         *)
(*   calls |-> the parse calls p made on its own argument parsers, in      *)
(*             order, each as <<position in the argument list, offset>>    *)
(***************************************************************************)
RECURSIVE Run(_, _, _)
RECURSIVE oneOfLoop(_, _, _, _, _, _)
RECURSIVE sequenceLoop(_, _, _, _, _, _)
RECURSIVE zeroOrMoreLoop(_, _, _, _, _, _, _)
RECURSIVE oneOrMoreLoop(_, _, _, _, _, _, _)

Parse(p, source, index) == Run(p, source, index).out

\* exact that compares the start of the source, whatever the offset
exactRunIgnoresOffset(toMatch, source, index) ==
    IF Slice(source, 0, Len(toMatch)) = toMatch
    THEN [out |-> ParseSuccess(Str(toMatch), index + Len(toMatch), source),
          calls |-> <<>>]
    ELSE [out |-> ParseError(
                    ExpectedMessage(source, index, "\"" \o toMatch \o "\"",
                        Slice(source, 0, Len(toMatch)))),
          calls |-> <<>>]

exactRun(toMatch, source, index) ==
    IF Slice(source, index, index + Len(toMatch)) = toMatch
    THEN [out |-> ParseSuccess(Str(toMatch), index + Len(toMatch), source),
          calls |-> <<>>]
    ELSE [out |-> ParseError(
                    ExpectedMessage(source, index, "\"" \o toMatch \o "\"",
                        Slice(source, index, index + Len(toMatch)))),
          calls |-> <<>>]

succeedRun(value, source, index) ==
    [out |-> ParseSuccess(value, index, source), calls |-> <<>>]

failRun(err) == [out |-> ParseError(err), calls |-> <<>>]

fromRegExpRun(re, expected, source, index) ==
    LET matched == RegExpExec(re, Slice(source, index, Len(source)))
    IN IF matched < 0
       THEN [out |-> ParseError(
                       ExpectedMessage(source, index, expected,
                                       CharAt(source, index))),
             calls |-> <<>>]
       ELSE [out |-> ParseSuccess(Str(Slice(source, index, index + matched)),
                                  index + matched, source),
             calls |-> <<>>]

\* oneOfLoop that, after a success, still prefers a later alternative that
\* succeeds
oneOfLoopPrefersLater(parsers, source, index, i, result, calls) ==
    IF i > Len(parsers)
    THEN [out |-> IF IsUndefined(result)
                  THEN ParseError("No parsers provided")
                  ELSE result,
          calls |-> calls]
    ELSE LET r == Parse(parsers[i], source, index)
             cs == Append(calls, <<i, index>>)
             later == oneOfLoop(parsers, source, index, i + 1, r, cs)
         IN IF isOk(r)
            THEN IF isOk(later.out) THEN later ELSE [out |-> r, calls |-> cs]
            ELSE IF ~r.error.backtrackable
                 THEN [out |-> ParseError(r.error.message), calls |-> cs]
                 ELSE later

\* oneOfLoop that keeps the first failure instead of the last one
oneOfLoopFirstFailure(parsers, source, index, i, result, calls) ==
    IF i > Len(parsers)
    THEN [out |-> IF IsUndefined(result)
                  THEN ParseError("No parsers provided")
                  ELSE result,
          calls |-> calls]
    ELSE LET r == Parse(parsers[i], source, index)
             cs == Append(calls, <<i, index>>)
         IN IF isOk(r) THEN [out |-> r, calls |-> cs]
            ELSE IF ~r.error.backtrackable
                 THEN [out |-> ParseError(r.error.message), calls |-> cs]
                 ELSE oneOfLoop(parsers, source, index, i + 1,
                                IF IsUndefined(result) THEN r ELSE result, cs)

\* oneOfLoop that returns a non-backtrackable failure as it is
oneOfLoopPropagatesFlag(parsers, source, index, i, result, calls) ==
    IF i > Len(parsers)
    THEN [out |-> IF IsUndefined(result)
                  THEN ParseError("No parsers provided")
                  ELSE result,
          calls |-> calls]
    ELSE LET r == Parse(parsers[i], source, index)
             cs == Append(calls, <<i, index>>)
         IN IF isOk(r) THEN [out |-> r, calls |-> cs]
            ELSE IF ~r.error.backtrackable
                 THEN [out |-> r, calls |-> cs]
                 ELSE oneOfLoop(parsers, source, index, i + 1, r, cs)

\* oneOf whose own failure is marked non-backtrackable when it stops at a
\* non-backtrackable failure
oneOfLoopKeepsCommit(parsers, source, index, i, result, calls) ==
    IF i > Len(parsers)
    THEN [out |-> IF IsUndefined(result)
                  THEN ParseError("No parsers provided")
                  ELSE result,
          calls |-> calls]
    ELSE LET r == Parse(parsers[i], source, index)
             cs == Append(calls, <<i, index>>)
         IN IF isOk(r) THEN [out |-> r, calls |-> cs]
            ELSE IF ~r.error.backtrackable
                 THEN [out |-> ParseErrorFlagged(r.error.message, FALSE),
                       calls |-> cs]
                 ELSE oneOfLoop(parsers, source, index, i + 1, r, cs)

\* the for loop of oneOf: i is the (1-based) position of the next parser,
\* result the last result obtained (Undefined for null)
oneOfLoop(parsers, source, index, i, result, calls) ==
    IF i > Len(parsers)
    THEN [out |-> IF IsUndefined(result)
                  THEN ParseError("No parsers provided")
                  ELSE result,
          calls |-> calls]
    ELSE LET r == Parse(parsers[i], source, index)
             cs == Append(calls, <<i, index>>)
         IN IF isOk(r) THEN [out |-> r, calls |-> cs]
            ELSE IF ~r.error.backtrackable
                 THEN [out |-> ParseError(r.error.message), calls |-> cs]
                 ELSE oneOfLoop(parsers, source, index, i + 1, r, cs)

oneOfRun(parsers, source, index) ==
    oneOfLoop(parsers, source, index, 1, Undefined, <<>>)

\* map that reports the offset it was given instead of parser's end offset
mapRunKeepsOffset(func, parser, source, index) ==
    LET r == Parse(parser, source, index)
    IN [out |-> IF isOk(r)
                THEN ParseSuccess(Apply(func, r.value.parsed), index, source)
                ELSE r,
        calls |-> << <<1, index>> >>]

mapRun(func, parser, source, index) ==
    LET r == Parse(parser, source, index)
    IN [out |-> IF isOk(r)
                THEN ParseSuccess(Apply(func, r.value.parsed),
                                  r.value.index, source)
                ELSE r,
        calls |-> << <<1, index>> >>]

\* conditional that returns the consequent's failure without marking it
conditionalRunBacktrackable(antecedent, consequent, source, index) ==
    LET ant == Parse(antecedent, source, index)
    IN IF isErr(ant) THEN [out |-> ant, calls |-> << <<1, index>> >>]
       ELSE LET newIndex == ant.value.index
                cons == Parse(consequent, source, newIndex)
                cs == << <<1, index>>, <<2, newIndex>> >>
            IN IF isErr(cons)
               THEN [out |-> cons, calls |-> cs]
               ELSE [out |-> ParseSuccess(
                               Arr(<<ant.value.parsed, cons.value.parsed>>),
                               cons.value.index, source),
                     calls |-> cs]

\* conditional that returns the antecedent's failure with the flag reset
conditionalRunResetsAntecedent(antecedent, consequent, source, index) ==
    LET ant == Parse(antecedent, source, index)
    IN IF isErr(ant)
       THEN [out |-> ParseError(ant.error.message),
             calls |-> << <<1, index>> >>]
       ELSE LET newIndex == ant.value.index
                cons == Parse(consequent, source, newIndex)
                cs == << <<1, index>>, <<2, newIndex>> >>
            IN IF isErr(cons)
               THEN [out |-> ParseErrorFlagged(cons.error.message, FALSE),
                     calls |-> cs]
               ELSE [out |-> ParseSuccess(
                               Arr(<<ant.value.parsed, cons.value.parsed>>),
                               cons.value.index, source),
                     calls |-> cs]

conditionalRun(antecedent, consequent, source, index) ==
    LET ant == Parse(antecedent, source, index)
    IN IF isErr(ant) THEN [out |-> ant, calls |-> << <<1, index>> >>]
       ELSE LET newIndex == ant.value.index
                cons == Parse(consequent, source, newIndex)
                cs == << <<1, index>>, <<2, newIndex>> >>
            IN IF isErr(cons)
               THEN [out |-> ParseErrorFlagged(cons.error.message, FALSE),
                     calls |-> cs]
               ELSE [out |-> ParseSuccess(
                               Arr(<<ant.value.parsed, cons.value.parsed>>),
                               cons.value.index, source),
                     calls |-> cs]

\* sequence that runs every parser at the offset it was given itself
sequenceLoopNoAdvance(parsers, source, index, i, values, calls) ==
    IF i > Len(parsers)
    THEN [out |-> ParseSuccess(Arr(values), index, source), calls |-> calls]
    ELSE LET result == Parse(parsers[i], source, index)
             cs == Append(calls, <<i, index>>)
         IN IF isErr(result) THEN [out |-> result, calls |-> cs]
            ELSE sequenceLoop(parsers, source, index, i + 1,
                              Append(values, result.value.parsed), cs)

\* the for loop of sequence
\* sequence that rebuilds the failure of an element from its message
sequenceLoopResetsFlag(parsers, source, index, i, values, calls) ==
    IF i > Len(parsers)
    THEN [out |-> ParseSuccess(Arr(values), index, source), calls |-> calls]
    ELSE LET result == Parse(parsers[i], source, index)
             cs == Append(calls, <<i, index>>)
         IN IF isErr(result)
            THEN [out |-> ParseError(result.error.message), calls |-> cs]
            ELSE sequenceLoop(parsers, source, result.value.index, i + 1,
                              Append(values, result.value.parsed), cs)

sequenceLoop(parsers, source, index, i, values, calls) ==
    IF i > Len(parsers)
    THEN [out |-> ParseSuccess(Arr(values), index, source), calls |-> calls]
    ELSE LET result == Parse(parsers[i], source, index)
             cs == Append(calls, <<i, index>>)
         IN IF isErr(result) THEN [out |-> result, calls |-> cs]
            ELSE sequenceLoop(parsers, source, result.value.index, i + 1,
                              Append(values, result.value.parsed), cs)

sequenceRun(parsers, source, index) ==
    sequenceLoop(parsers, source, index, 1, <<>>, <<>>)

\* zeroOrMore that returns the elements matched so far whatever failure
\* ends the loop
zeroOrMoreKeeps(parser, source, index, results, result, calls, iterations) ==
    IF isOk(result)
    THEN IF iterations >= MaxIterations
         THEN [out |-> NoReturn, calls |-> calls]
         ELSE LET newIndex == result.value.index
              IN zeroOrMoreLoop(parser, source, newIndex,
                                Append(results, result.value.parsed),
                                Parse(parser, source, newIndex),
                                Append(calls, <<1, newIndex>>),
                                iterations + 1)
    ELSE IF ~result.error.backtrackable /\ results = <<>>
         THEN [out |-> ParseError(result.error.message), calls |-> calls]
         ELSE [out |-> ParseSuccess(Arr(results), index, source),
               calls |-> calls]

\* the while loop of zeroOrMore: `results` are the values pushed so far,
\* `result` what the last call of parser returned, `iterations` the passes
\* made so far
zeroOrMoreLoop(parser, source, index, results, result, calls, iterations) ==
    IF isOk(result)
    THEN IF iterations >= MaxIterations
         THEN [out |-> NoReturn, calls |-> calls]
         ELSE LET newIndex == result.value.index
              IN zeroOrMoreLoop(parser, source, newIndex,
                                Append(results, result.value.parsed),
                                Parse(parser, source, newIndex),
                                Append(calls, <<1, newIndex>>),
                                iterations + 1)
    ELSE IF ~result.error.backtrackable
         THEN [out |-> ParseError(result.error.message), calls |-> calls]
         ELSE [out |-> ParseSuccess(Arr(results), index, source),
               calls |-> calls]

zeroOrMoreRun(parser, source, index) ==
    zeroOrMoreLoop(parser, source, index, <<>>,
                   Parse(parser, source, index), << <<1, index>> >>, 0)

\* the while loop of oneOrMore
oneOrMoreLoop(parser, source, index, results, result, calls, iterations) ==
    IF isOk(result)
    THEN IF iterations >= MaxIterations
         THEN [out |-> NoReturn, calls |-> calls]
         ELSE LET newIndex == result.value.index
              IN oneOrMoreLoop(parser, source, newIndex,
                               Append(results, result.value.parsed),
                               Parse(parser, source, newIndex),
                               Append(calls, <<1, newIndex>>),
                               iterations + 1)
    ELSE IF ~result.error.backtrackable
         THEN [out |-> ParseError(result.error.message), calls |-> calls]
         ELSE [out |-> ParseSuccess(Arr(results), index, source),
               calls |-> calls]

\* oneOrMore without the early return on a first failure
oneOrMoreRunAcceptsNone(parser, source, index) ==
    oneOrMoreLoop(parser, source, index, <<>>, Parse(parser, source, index),
                  << <<1, index>> >>, 0)

oneOrMoreRun(parser, source, index) ==
    LET result == Parse(parser, source, index)
    IN IF isErr(result) THEN [out |-> result, calls |-> << <<1, index>> >>]
       ELSE oneOrMoreLoop(parser, source, index, <<>>, result,
                          << <<1, index>> >>, 0)

\* optional that tries the default value first
optionalRunDefaultFirst(parser, defaultValue, source, index) ==
    oneOfRun(<<succeed(defaultValue), parser>>, source, index)

\* optional(parser, defaultValue) is oneOf(parser, succeed(defaultValue))
optionalRun(parser, defaultValue, source, index) ==
    oneOfRun(<<parser, succeed(defaultValue)>>, source, index)

\* maybe that does not wrap the value of parser
maybeRunUnwrapped(parser, source, index) ==
    oneOfRun(<<parser, succeed(Nothing)>>, source, index)

\* maybe(parser) is oneOf(map(Maybe.Just, parser), succeed(Maybe.Nothing()))
maybeRun(parser, source, index) ==
    oneOfRun(<<map(MaybeJust, parser), succeed(Nothing)>>, source, index)

\* int that returns the integer part whatever follows it
intRunGreedy(source, index) ==
    [out |-> Parse(map(NumberFunction, integerPart), source, index),
     calls |-> << <<1, index>> >>]

intRun(source, index) ==
    LET result == Parse(number, source, index)
    IN [out |-> IF isErr(result) THEN result
                ELSE IF ~isSafeInteger(result.value.parsed)
                     THEN ParseError(
                              ExpectedMessage(source, index, "an integer",
                                  NumberText(result.value.parsed)))
                     ELSE result,
        calls |-> << <<1, index>> >>]

\* lazy(factory): factory().parse(source, index)
lazyRun(factory, source, index) ==
    [out |-> Parse(factory, source, index), calls |-> << <<1, index>> >>]

Run(p, source, index) ==
    CASE p.t = "exact" -> exactRun(p.toMatch, source, index)
      [] p.t = "succeed" -> succeedRun(p.value, source, index)
      [] p.t = "fail" -> failRun(p.err)
      [] p.t = "fromRegExp" -> fromRegExpRun(p.re, p.expected, source, index)
      [] p.t = "oneOf" -> oneOfRun(p.parsers, source, index)
      [] p.t = "map" -> mapRun(p.func, p.parser, source, index)
      [] p.t = "conditional" ->
            conditionalRun(p.antecedent, p.consequent, source, index)
      [] p.t = "sequence" -> sequenceRun(p.parsers, source, index)
      [] p.t = "zeroOrMore" -> zeroOrMoreRun(p.parser, source, index)
      [] p.t = "oneOrMore" -> oneOrMoreRun(p.parser, source, index)
      [] p.t = "optional" ->
            optionalRun(p.parser, p.defaultValue, source, index)
      [] p.t = "maybe" -> maybeRun(p.parser, source, index)
      [] p.t = "lazy" -> lazyRun(p.factory, source, index)
      [] p.t = "int" -> intRun(source, index)

(***************************************************************************)
(* The Pratt engine.                                                       *)
(*                                                                         *)
(* pratt's closure variable `index` holds a JavaScript value: Num(n) or    *)
(* Undefined.  The argument parsers return ParseSuccess objects            *)
(* { parsed, index, source }, while expr reads its results positionally    *)
(* (value[0], value[1], array destructuring) and itself returns            *)
(* Result.Ok([full, index, source]), modelled as Arr(<<...>>).  ElementAt  *)
(* and IsIterable give what JavaScript evaluates for those accesses.       *)
(***************************************************************************)
\* an optional member of OperatorOptions
Absent == [defined |-> FALSE]
Present(member) == [defined |-> TRUE] @@ member

pratt(left, options) == [t |-> "pratt", left |-> left, options |-> options]

\* v[k] for the value v of an Ok result: the k-th element of an array,
\* undefined for an object that has no property named k
ElementAt(v, k) ==
    IF "arr" \in DOMAIN v
    THEN IF k < Len(v.arr) THEN v.arr[k + 1] ELSE Undefined
    ELSE Undefined

\* can `const [a, b] = v` be evaluated: arrays are iterable, plain objects
\* are not (TypeError)
IsIterable(v) == "arr" \in DOMAIN v

\* the default parameter `index: number = 0` of every parse function
DefaultIndex(index) == IF IsUndefined(index) THEN 0 ELSE index.num

\* index === source.length
isEof(source, index) == ~IsUndefined(index) /\ index.num = Len(source)

\* `${v}` inside a template literal
TemplateText(v) == IF IsUndefined(v) THEN "undefined" ELSE v.str

\* the accumulators of the test grammars (S expressions)
infixAcc(symbol, lhs, rhs) ==
    Str("(" \o TemplateText(symbol) \o " " \o TemplateText(lhs) \o " "
            \o TemplateText(rhs) \o ")")
prefixAcc(symbol, rhs) ==
    Str("(" \o TemplateText(symbol) \o " " \o TemplateText(rhs) \o ")")
postfixAcc(symbol, lhs) ==
    Str("(" \o TemplateText(symbol) \o " " \o TemplateText(lhs) \o ")")

RECURSIVE expr(_, _, _, _, _, _)
RECURSIVE exprLoop(_, _, _, _, _, _, _)

\* return Result.Ok([full, index, source])
exprReturn(source, full, index) ==
    [res |-> ResultOk(Arr(<<full, index, Str(source)>>)), index |-> index]

\* the `while (true)` loop of expr; the result carries the closure's index
exprLoop(left, options, source, minBindingPower, full, index, depth) ==
    IF isEof(source, index) THEN exprReturn(source, full, index)
    ELSE
    LET postfixResult ==
            IF ~options.postfix.defined THEN ResultErr("")
            ELSE Parse(options.postfix.op, source, DefaultIndex(index))
    IN
    IF isOk(postfixResult)
    THEN IF ~IsIterable(postfixResult.value)
         THEN [res |-> Thrown("TypeError"), index |-> index]
         ELSE LET operator == postfixResult.value.arr[1]
                  newIndex == postfixResult.value.arr[2]
              IN IF operator.bindingPower < minBindingPower
                 THEN exprReturn(source, full, index)
                 ELSE exprLoop(left, options, source, minBindingPower,
                               postfixAcc(operator.symbol, full),
                               newIndex, depth)
    ELSE
    LET scopeEndResult ==
            IF ~options.scope.defined THEN ResultErr("")
            ELSE Parse(options.scope.scopeEnd, source, DefaultIndex(index))
    IN
    IF isOk(scopeEndResult) THEN exprReturn(source, full, index)
    ELSE
    LET op == Parse(options.infix.op, source, DefaultIndex(index))
    IN
    IF isErr(op) THEN [res |-> op, index |-> index]
    ELSE IF ~IsIterable(op.value)
    THEN [res |-> Thrown("TypeError"), index |-> index]
    ELSE
    LET operator == op.value.arr[1]
        newIndex == op.value.arr[2]
        leftBindingPower == operator.bindingPower[1]
        rightBindingPower == operator.bindingPower[2]
    IN
    IF leftBindingPower < minBindingPower
    THEN exprReturn(source, full, index)
    ELSE LET rhs == expr(left, options, source, rightBindingPower,
                         newIndex, depth + 1)
         IN IF ~isOk(rhs.res) THEN rhs
            ELSE exprLoop(left, options, source, minBindingPower,
                          infixAcc(operator.symbol, full,
                                   ElementAt(rhs.res.value, 0)),
                          rhs.index, depth)

\* function expr(minBindingPower); depth counts the frames of expr on the
\* call stack, beyond MaxCallDepth the engine throws RangeError
expr(left, options, source, minBindingPower, index, depth) ==
    IF depth > MaxCallDepth
    THEN [res |-> Thrown("RangeError"), index |-> index]
    ELSE
    LET prefixResult ==
            IF ~options.prefix.defined THEN ResultErr("")
            ELSE Parse(options.prefix.op, source, DefaultIndex(index))
    IN
    IF isOk(prefixResult)
    THEN IF ~IsIterable(prefixResult.value)
         THEN [res |-> Thrown("TypeError"), index |-> index]
         ELSE LET operator == prefixResult.value.arr[1]
                  newIndex == prefixResult.value.arr[2]
                  rhs == expr(left, options, source, operator.bindingPower,
                              newIndex, depth + 1)
              IN IF ~isOk(rhs.res) THEN rhs
                 ELSE exprLoop(left, options, source, minBindingPower,
                               prefixAcc(operator.symbol,
                                         ElementAt(rhs.res.value, 0)),
                               rhs.index, depth)
    ELSE
    LET scopeBeginResult ==
            IF ~options.scope.defined THEN ResultErr("")
            ELSE Parse(options.scope.scopeBegin, source, DefaultIndex(index))
    IN
    IF isOk(scopeBeginResult)
    THEN LET lhs == expr(left, options, source, 0,
                         ElementAt(scopeBeginResult.value, 1), depth + 1)
         IN IF ~isOk(lhs.res) THEN lhs
            ELSE LET scopeEndResult ==
                         Parse(options.scope.scopeEnd, source,
                               DefaultIndex(lhs.index))
                 IN IF isErr(scopeEndResult)
                    THEN [res |-> scopeEndResult, index |-> lhs.index]
                    ELSE exprLoop(left, options, source, minBindingPower,
                                  ElementAt(lhs.res.value, 0),
                                  ElementAt(scopeEndResult.value, 1), depth)
    ELSE
    LET lhs == Parse(left, source, DefaultIndex(index))
    IN IF isErr(lhs) THEN [res |-> lhs, index |-> index]
       ELSE exprLoop(left, options, source, minBindingPower,
                     ElementAt(lhs.value, 0), ElementAt(lhs.value, 1), depth)

\* pratt(left, options).parse(source, index): return expr()
prattRun(left, options, source, index) ==
    [out |-> expr(left, options, source, 0, Num(index), 1).res,
     calls |-> <<>>]

(***************************************************************************)
(* Inputs of the model.                                                    *)
(***************************************************************************)
\* the parsers given to the combinators as arguments
Alternatives ==
    << exact("a"), exact("ab"), exact("b"), succeed(Str("d")), fail("boom"),
       conditional(exact("a"), exact("b")),
       conditional(exact("a"), alpha),
       conditional(exact("b"), succeed(Str("d"))) >>

Sources == {"", "a", "ab", "abb", "b", "a\nb", "a1"}

ParserLists ==
    UNION { [1..n -> 1..Len(Alternatives)] : n \in 0..MaxParsers }

ParsersOf(choice) == [k \in DOMAIN choice |-> Alternatives[choice[k]]]

\* the grammar of Examples/Pratt.test.ts with the binding powers as
\* parameters; prefixPower / postfixPower 0 leave the member out
PrattGrammar(minusPower, slashPower, prefixPower, postfixPower, scoped) ==
    pratt(integerPart,
          [infix |-> [op |-> oneOf(<<toBinaryOperator(exact("-"), minusPower),
                                     toBinaryOperator(exact("/"), slashPower)>>)],
           prefix |-> IF prefixPower = 0 THEN Absent
                      ELSE Present([op |-> toUnaryOperator(exact("+"),
                                                           prefixPower)]),
           postfix |-> IF postfixPower = 0 THEN Absent
                       ELSE Present([op |-> toUnaryOperator(exact("!"),
                                                            postfixPower)]),
           scope |-> IF scoped
                     THEN Present([scopeBegin |-> exact("{"),
                                   scopeEnd |-> exact("}")])
                     ELSE Absent])

MinusPowers == {<<1, 2>>, <<2, 1>>, <<5, 6>>}
SlashPowers == {<<3, 4>>, <<4, 3>>}
PrefixPowers == {0, 5, 9}
PostfixPowers == {0, 7}

PrattSources ==
    {"1", "1 - 2 - 3", "1 - 2 - 3 - 4", "1 / 2 / 3 / 4", "1 - 2 / 3",
     "1 / 2 - 3", "+3!", "+3", "3!", "{1}", "{1 / 2}", "1 / {2 / 3} / 4",
     "1 / {2 / 3 / 4}", "1 x", "1}", "{1", "{1 / 2", "- 1", "}", "}1", ""}

\* the parsers given to zeroOrMore, oneOrMore, optional, maybe, map and lazy
Elements ==
    << exact("a"), exact("ab"), alpha, singleDigit, succeed(Str("d")),
       spaces, fail("boom"),
       conditional(exact("a"), exact("b")),
       oneOf(<<exact("a"), exact("b")>>),
       sequence(<<exact("a"), zeroOrMore(exact("b"))>>),
       map(MaybeJust, exact("a")) >>

ElementSources == {"", "a", "aaa", "ab", "aba", "abb", "b", " a", "a\na", "1a"}

\* the functions given to map
Functions == {Identity, MaybeJust}

\* the default value given to optional
DefaultValue == Str("z")

\* parsers that can succeed without consuming a character
ZeroWidth ==
    << spaces, succeed(Str("d")), optional(exact("a"), DefaultValue),
       maybe(exact("a")) >>

\* the primitive matchers
Literals == {"", "a", "ab", "b", "\n", "a\nb"}
RegExpParsers ==
    <<spaces, digits, singleDigit, alpha, alphaNum, integerPart, numberString>>
PrimitiveSources ==
    {"", "a", "ab", "abb", "b", "a\nb", "\n\nab", "\na", "a1", "1a", " a"}

\* what wraps a conditional in the first alternative of a oneOf: an inner
\* oneOf, a sequence, a map or a lazy (k is the second parser of the inner
\* oneOf and of the sequence)
Wrappers == {"oneOf", "sequence", "map", "lazy"}
Wrapped(wrapper, inner, k) ==
    CASE wrapper = "oneOf" -> oneOf(<<inner, Alternatives[k]>>)
      [] wrapper = "sequence" -> sequence(<<inner, Alternatives[k]>>)
      [] wrapper = "map" -> map(MaybeJust, inner)
      [] wrapper = "lazy" -> lazy(inner)

\* the number parsers and the texts they are tried on
NumberParsers == <<numberString, number, integerPart, int>>
NumberSources ==
    {"12345 hello", "3.14159 hello", "+12", "-12", "+12.0", "-12.50", "0",
     "01234", "0.14159 hello", "bob", ".14159", "+hello", "123.1415 hello",
     "12.", "1.x", "-0", "-0.5", "x12.5", "a-3.25", "1.0.5"}

\* failures far enough into a source for the context block to be clipped
LongSources ==
    {"<hello><how><are><123><you>", "<abc><123>", "ab\ncdefghijklmnop\nq",
     "ab\nc"}
LongOffsets == {1, 6, 12, 18}

\* the parser of the sequence tests: "abcde" letter by letter
Abcde == sequence(<<exact("a"), exact("b"), exact("c"), exact("d"), exact("e")>>)
AbcdeSources == {"abcde", "abcfg", "abcdef", "xbcde", "ab\nde", "abc"}

(***************************************************************************)
(* The state: one parse call, its arguments and what it returned.  Init    *)
(* draws the parser, the source and the offset; the action of the parser's *)
(* combinator runs the call.                                               *)
(***************************************************************************)
VARIABLES parser, source, index, result, pc

vars == <<parser, source, index, result, pc>>

\* no call has returned yet
Pending == [out |-> [variant |-> "Pending"], calls |-> <<>>]

InitOneOf ==
    \E choice \in ParserLists :
        /\ parser = oneOf(ParsersOf(choice))
        /\ source \in Sources
        /\ index \in 0..MaxIndex

InitSequence ==
    \E choice \in ParserLists :
        /\ parser = sequence(ParsersOf(choice))
        /\ source \in Sources
        /\ index \in 0..MaxIndex

InitConditional ==
    \E a \in 1..Len(Alternatives), c \in 1..Len(Alternatives) :
        /\ parser = conditional(Alternatives[a], Alternatives[c])
        /\ source \in Sources
        /\ index \in 0..MaxIndex

InitPratt ==
    \E mp \in MinusPowers, sp \in SlashPowers, pre \in PrefixPowers,
       post \in PostfixPowers, scoped \in BOOLEAN :
        /\ parser = PrattGrammar(mp, sp, pre, post, scoped)
        /\ source \in PrattSources
        /\ index \in 0..MaxIndex

InitAbcde ==
    /\ parser = Abcde
    /\ source \in AbcdeSources
    /\ index \in 0..MaxIndex

InitLongSource ==
    /\ parser \in {alpha, exact("x")}
    /\ source \in LongSources
    /\ index \in LongOffsets

InitNumber ==
    \E k \in 1..Len(NumberParsers) :
        /\ parser = NumberParsers[k]
        /\ source \in NumberSources
        /\ index \in 0..MaxIndex

InitNested ==
    \E wrapper \in Wrappers, c \in 1..Len(Alternatives),
       k \in 1..Len(Alternatives), y \in 1..Len(Alternatives) :
        /\ wrapper \in {"map", "lazy"} => k = 1
        /\ parser = oneOf(<<Wrapped(wrapper,
                                    conditional(exact("a"), Alternatives[c]),
                                    k),
                            Alternatives[y]>>)
        /\ source \in Sources
        /\ index \in 0..MaxIndex

InitZeroOrMore ==
    \E e \in 1..Len(Elements) :
        /\ parser = zeroOrMore(Elements[e])
        /\ source \in ElementSources
        /\ index \in 0..MaxIndex

InitOneOrMore ==
    \E e \in 1..Len(Elements) :
        /\ parser = oneOrMore(Elements[e])
        /\ source \in ElementSources
        /\ index \in 0..MaxIndex

\* the repetitions of a parser that can succeed without consuming
InitZeroWidth ==
    \E z \in 1..Len(ZeroWidth) :
        /\ parser \in {zeroOrMore(ZeroWidth[z]), oneOrMore(ZeroWidth[z])}
        /\ source \in ElementSources
        /\ index \in 0..MaxIndex

InitOptional ==
    \E e \in 1..Len(Elements) :
        /\ parser = optional(Elements[e], DefaultValue)
        /\ source \in ElementSources
        /\ index \in 0..MaxIndex

InitMaybe ==
    \E e \in 1..Len(Elements) :
        /\ parser = maybe(Elements[e])
        /\ source \in ElementSources
        /\ index \in 0..MaxIndex

InitMap ==
    \E e \in 1..Len(Elements), func \in Functions :
        /\ parser = map(func, Elements[e])
        /\ source \in ElementSources
        /\ index \in 0..MaxIndex

InitLazy ==
    \E e \in 1..Len(Elements) :
        /\ parser = lazy(Elements[e])
        /\ source \in ElementSources
        /\ index \in 0..MaxIndex

InitExact ==
    \E toMatch \in Literals :
        /\ parser = exact(toMatch)
        /\ source \in PrimitiveSources
        /\ index \in 0..MaxIndex

InitFromRegExp ==
    \E k \in 1..Len(RegExpParsers) :
        /\ parser = RegExpParsers[k]
        /\ source \in PrimitiveSources
        /\ index \in 0..MaxIndex

InitSucceed ==
    /\ parser = succeed(DefaultValue)
    /\ source \in PrimitiveSources
    /\ index \in 0..MaxIndex

InitFail ==
    /\ parser = fail("boom")
    /\ source \in PrimitiveSources
    /\ index \in 0..MaxIndex

Init ==
    /\ \/ InitOneOf \/ InitSequence \/ InitConditional \/ InitPratt
       \/ InitAbcde \/ InitZeroOrMore \/ InitOneOrMore \/ InitOptional
       \/ InitMaybe \/ InitMap \/ InitLazy \/ InitExact \/ InitFromRegExp
       \/ InitSucceed \/ InitFail \/ InitLongSource \/ InitNumber
       \/ InitNested \/ InitZeroWidth
    /\ result = Pending
    /\ pc = "ready"

\* oneOf(...parsers).parse(source, index)
ApplyOneOf ==
    /\ pc = "ready"
    /\ parser.t = "oneOf"
    /\ result' = oneOfRun(parser.parsers, source, index)
    /\ pc' = "done"
    /\ UNCHANGED <<parser, source, index>>

\* sequence(...parsers).parse(source, index)
ApplySequence ==
    /\ pc = "ready"
    /\ parser.t = "sequence"
    /\ result' = sequenceRun(parser.parsers, source, index)
    /\ pc' = "done"
    /\ UNCHANGED <<parser, source, index>>

\* conditional(antecedent, consequent).parse(source, index)
ApplyConditional ==
    /\ pc = "ready"
    /\ parser.t = "conditional"
    /\ result' = conditionalRun(parser.antecedent, parser.consequent,
                                source, index)
    /\ pc' = "done"
    /\ UNCHANGED <<parser, source, index>>

\* pratt(left, options).parse(source, index)
ApplyPratt ==
    /\ pc = "ready"
    /\ parser.t = "pratt"
    /\ result' = prattRun(parser.left, parser.options, source, index)
    /\ pc' = "done"
    /\ UNCHANGED <<parser, source, index>>

\* zeroOrMore(parser).parse(source, index)
ApplyZeroOrMore ==
    /\ pc = "ready"
    /\ parser.t = "zeroOrMore"
    /\ result' = zeroOrMoreRun(parser.parser, source, index)
    /\ pc' = "done"
    /\ UNCHANGED <<parser, source, index>>

\* oneOrMore(parser).parse(source, index)
ApplyOneOrMore ==
    /\ pc = "ready"
    /\ parser.t = "oneOrMore"
    /\ result' = oneOrMoreRun(parser.parser, source, index)
    /\ pc' = "done"
    /\ UNCHANGED <<parser, source, index>>

\* optional(parser, defaultValue).parse(source, index)
ApplyOptional ==
    /\ pc = "ready"
    /\ parser.t = "optional"
    /\ result' = optionalRun(parser.parser, parser.defaultValue, source,
                              index)
    /\ pc' = "done"
    /\ UNCHANGED <<parser, source, index>>

\* maybe(parser).parse(source, index)
ApplyMaybe ==
    /\ pc = "ready"
    /\ parser.t = "maybe"
    /\ result' = maybeRun(parser.parser, source, index)
    /\ pc' = "done"
    /\ UNCHANGED <<parser, source, index>>

\* map(func, parser).parse(source, index)
ApplyMap ==
    /\ pc = "ready"
    /\ parser.t = "map"
    /\ result' = mapRun(parser.func, parser.parser, source, index)
    /\ pc' = "done"
    /\ UNCHANGED <<parser, source, index>>

\* lazy(factory).parse(source, index)
ApplyLazy ==
    /\ pc = "ready"
    /\ parser.t = "lazy"
    /\ result' = lazyRun(parser.factory, source, index)
    /\ pc' = "done"
    /\ UNCHANGED <<parser, source, index>>

\* exact(toMatch).parse(source, index)
ApplyExact ==
    /\ pc = "ready"
    /\ parser.t = "exact"
    /\ result' = exactRun(parser.toMatch, source, index)
    /\ pc' = "done"
    /\ UNCHANGED <<parser, source, index>>

\* fromRegExp(re, expected).parse(source, index)
ApplyFromRegExp ==
    /\ pc = "ready"
    /\ parser.t = "fromRegExp"
    /\ result' = fromRegExpRun(parser.re, parser.expected, source, index)
    /\ pc' = "done"
    /\ UNCHANGED <<parser, source, index>>

\* succeed(value).parse(source, index)
ApplySucceed ==
    /\ pc = "ready"
    /\ parser.t = "succeed"
    /\ result' = succeedRun(parser.value, source, index)
    /\ pc' = "done"
    /\ UNCHANGED <<parser, source, index>>

\* fail(err).parse(source, index)
ApplyFail ==
    /\ pc = "ready"
    /\ parser.t = "fail"
    /\ result' = failRun(parser.err)
    /\ pc' = "done"
    /\ UNCHANGED <<parser, source, index>>

\* int().parse(source, index)
ApplyInt ==
    /\ pc = "ready"
    /\ parser.t = "int"
    /\ result' = intRun(source, index)
    /\ pc' = "done"
    /\ UNCHANGED <<parser, source, index>>

Next ==
    \/ ApplyOneOf \/ ApplySequence \/ ApplyConditional \/ ApplyPratt
    \/ ApplyZeroOrMore \/ ApplyOneOrMore \/ ApplyOptional \/ ApplyMaybe
    \/ ApplyMap \/ ApplyLazy \/ ApplyExact \/ ApplyFromRegExp
    \/ ApplySucceed \/ ApplyFail \/ ApplyInt

Spec == Init /\ [][Next]_vars

(***************************************************************************)
(* Properties.                                                             *)
(***************************************************************************)
\* what the k-th argument parser of the current call returns at offset i
Arg(k, i) == Parse(parser.parsers[k], source, i)

Succeeds(k) == isOk(Arg(k, index))
FailsBacktrackably(k) ==
    isErr(Arg(k, index)) /\ Arg(k, index).error.backtrackable
FailsCommitted(k) ==
    isErr(Arg(k, index)) /\ ~Arg(k, index).error.backtrackable

\* the parse calls <<1, i>>, ..., <<k, i>>
CallsUpTo(k, i) == [j \in 1..k |-> <<j, i>>]

\* oneOf(conditional(a, c), ...) where a succeeds at index and c fails at
\* a's end offset
CommittedFirst ==
    /\ pc = "done"
    /\ parser.t = "oneOf"
    /\ Len(parser.parsers) >= 1
    /\ parser.parsers[1].t = "conditional"
    /\ isOk(Parse(parser.parsers[1].antecedent, source, index))
    /\ isErr(Parse(parser.parsers[1].consequent, source,
                   Parse(parser.parsers[1].antecedent, source,
                         index).value.index))

\* C1: commitment law.  When the first alternative of oneOf is
\* conditional(a, c), a succeeds at the offset and c fails at a's end
\* offset, oneOf fails with the message of c's failure and no later
\* alternative is run, whether or not it would succeed.
C1_Commitment ==
    CommittedFirst =>
        /\ isErr(result.out)
        /\ result.out.error.message =
              Parse(parser.parsers[1].consequent, source,
                    Parse(parser.parsers[1].antecedent, source,
                          index).value.index).error.message
        /\ result.calls = CallsUpTo(1, index)

\* the commitment case with a second alternative that would succeed
C1_Witness ==
    /\ CommittedFirst
    /\ Len(parser.parsers) >= 2
    /\ Succeeds(2)
    /\ isErr(result.out)

\* C2 as amended: oneOf runs its alternatives at the original offset in
\* list order and returns the success of the first alternative that
\* succeeds, provided every alternative before it fails backtrackably; the
\* alternatives after it are not run.
C2_FirstSuccessWins ==
    (pc = "done" /\ parser.t = "oneOf") =>
        /\ \A k \in 1..Len(parser.parsers) :
            (Succeeds(k) /\ \A j \in 1..(k - 1) : FailsBacktrackably(j)) =>
                /\ result.out = Arg(k, index)
                /\ result.calls = CallsUpTo(k, index)
        /\ result.calls = CallsUpTo(Len(result.calls), index)

\* two alternatives match, the later one is longer, the earlier one is
\* returned
C2_Witness ==
    /\ pc = "done"
    /\ parser.t = "oneOf"
    /\ \E k \in 1..Len(parser.parsers), m \in 1..Len(parser.parsers) :
          /\ k < m
          /\ \A j \in 1..(k - 1) : FailsBacktrackably(j)
          /\ Succeeds(k)
          /\ Succeeds(m)
          /\ Arg(m, index).value.index > Arg(k, index).value.index
          /\ result.out = Arg(k, index)

\* C2 as stated: oneOf returns the success of the first alternative that
\* succeeds at the offset, whatever the alternatives before it do.
C2_Original ==
    (pc = "done" /\ parser.t = "oneOf") =>
        \A k \in 1..Len(parser.parsers) :
            (Succeeds(k) /\ \A j \in 1..(k - 1) : ~Succeeds(j)) =>
                result.out = Arg(k, index)

\* C8: when every alternative of a non-empty oneOf fails backtrackably the
\* result is the failure of the last alternative, and every alternative was
\* run; oneOf of no parsers fails with "No parsers provided".
C8_LastFailure ==
    (pc = "done" /\ parser.t = "oneOf") =>
        /\ (Len(parser.parsers) >= 1
              /\ \A k \in 1..Len(parser.parsers) : FailsBacktrackably(k))
           => /\ result.out = Arg(Len(parser.parsers), index)
              /\ result.calls = CallsUpTo(Len(parser.parsers), index)
        /\ Len(parser.parsers) = 0
           => /\ isErr(result.out)
              /\ result.out.error.message = "No parsers provided"

\* all alternatives fail backtrackably and the first and the last failure
\* differ
C8_Witness ==
    /\ pc = "done"
    /\ parser.t = "oneOf"
    /\ Len(parser.parsers) >= 2
    /\ \A k \in 1..Len(parser.parsers) : FailsBacktrackably(k)
    /\ Arg(1, index) # Arg(Len(parser.parsers), index)
    /\ result.out = Arg(Len(parser.parsers), index)

\* C9 as amended: oneOf(p) returns p's success unchanged, and when p fails
\* it fails with p's message; the failure oneOf returns is backtrackable
\* also when p's failure is not.
C9_SingleArgument ==
    (pc = "done" /\ parser.t = "oneOf" /\ Len(parser.parsers) = 1) =>
        /\ Succeeds(1) => result.out = Arg(1, index)
        /\ ~Succeeds(1) =>
              result.out = ParseError(Arg(1, index).error.message)

\* oneOf(p) where p fails non-backtrackably
C9_Witness ==
    /\ pc = "done"
    /\ parser.t = "oneOf"
    /\ Len(parser.parsers) = 1
    /\ FailsCommitted(1)
    /\ isErr(result.out)
    /\ result.out.error.backtrackable

\* C9 as stated: oneOf(p) returns the same outcome as p.
C9_Original ==
    (pc = "done" /\ parser.t = "oneOf" /\ Len(parser.parsers) = 1) =>
        result.out = Arg(1, index)

RECURSIVE OffsetBefore(_)
\* the end offset of the (k-1)-th parser of a sequence, the input offset
\* for k = 1 (defined as long as the parsers before k succeed)
OffsetBefore(k) ==
    IF k = 1 THEN index
    ELSE Arg(k - 1, OffsetBefore(k - 1)).value.index

RECURSIVE AllSucceedBefore(_)
\* the parsers 1 .. k-1 of a sequence all succeed, each at the end offset
\* of the one before
AllSucceedBefore(k) ==
    IF k = 1 THEN TRUE
    ELSE AllSucceedBefore(k - 1) /\ isOk(Arg(k - 1, OffsetBefore(k - 1)))

\* C10: sequence runs p1 at the offset and each pk at the end offset of
\* p(k-1).  When all succeed it returns the list of their values in order
\* at the end offset of the last one; at the first pk that fails it returns
\* exactly that failure and runs no later parser.
C10_Sequence ==
    (pc = "done" /\ parser.t = "sequence") =>
        LET n == Len(parser.parsers)
        IN /\ AllSucceedBefore(n + 1) =>
                /\ result.out =
                      ParseSuccess(
                          Arr([k \in 1..n |->
                                  Arg(k, OffsetBefore(k)).value.parsed]),
                          OffsetBefore(n + 1), source)
                /\ result.calls = [k \in 1..n |-> <<k, OffsetBefore(k)>>]
           /\ \A f \in 1..n :
                (AllSucceedBefore(f) /\ isErr(Arg(f, OffsetBefore(f)))) =>
                    /\ result.out = Arg(f, OffsetBefore(f))
                    /\ result.calls = [k \in 1..f |-> <<k, OffsetBefore(k)>>]
           /\ isOk(result.out) => AllSucceedBefore(n + 1)

\* a sequence of three parsers that all succeed and consume input, and a
\* sequence that fails at its second parser with a third one left
C10_WitnessOk ==
    /\ pc = "done"
    /\ parser.t = "sequence"
    /\ Len(parser.parsers) = 3
    /\ AllSucceedBefore(4)
    /\ OffsetBefore(2) > index
    /\ OffsetBefore(3) > OffsetBefore(2)
    /\ isOk(result.out)

C10_Witness ==
    /\ pc = "done"
    /\ parser.t = "sequence"
    /\ Len(parser.parsers) = 3
    /\ AllSucceedBefore(2)
    /\ OffsetBefore(2) > index
    /\ isErr(Arg(2, OffsetBefore(2)))
    /\ isOk(Arg(2, index))
    /\ isErr(result.out)

(***************************************************************************)
(* Properties of the repetitions.                                          *)
(***************************************************************************)
\* what the parser p given to zeroOrMore, oneOrMore, optional, maybe or map
\* returns at offset i
Inner(i) == Parse(parser.parser, source, i)

RECURSIVE OffsetAfter(_)
\* the end offset of the k-th of p's consecutive successes from the input
\* offset, the input offset for k = 0
OffsetAfter(k) ==
    IF k = 0 THEN index ELSE Inner(OffsetAfter(k - 1)).value.index

RECURSIVE SucceedsTimes(_)
\* p succeeds k times in a row, each time at the end offset of the success
\* before
SucceedsTimes(k) ==
    IF k = 0 THEN TRUE
    ELSE SucceedsTimes(k - 1) /\ isOk(Inner(OffsetAfter(k - 1)))

\* p succeeds exactly n times in a row and then fails
EndsAfter(n) == SucceedsTimes(n) /\ isErr(Inner(OffsetAfter(n)))

\* the values of the first n consecutive successes of p
ValuesOf(n) == [k \in 1..n |-> Inner(OffsetAfter(k - 1)).value.parsed]

\* no failure of p, on any source of the model at any offset of it, is
\* non-backtrackable
AllFailuresBacktrackable ==
    \A s \in ElementSources : \A i \in 0..Len(s) :
        isErr(Parse(parser.parser, s, i)) =>
            Parse(parser.parser, s, i).error.backtrackable

\* C11: when every failure of p is backtrackable, zeroOrMore(p) succeeds on
\* every source and offset, with the list of the values of p's consecutive
\* successes (possibly empty) at the end offset of the last success (the
\* input offset when the list is empty).
C11_ZeroOrMore ==
    (pc = "done" /\ parser.t = "zeroOrMore" /\ AllFailuresBacktrackable) =>
        /\ isOk(result.out)
        /\ LET n == Len(result.out.value.parsed.arr)
           IN /\ EndsAfter(n)
              /\ result.out = ParseSuccess(Arr(ValuesOf(n)), OffsetAfter(n),
                                           source)

\* the failure of p that ends its n consecutive successes is backtrackable
EndsBacktrackably(n) ==
    EndsAfter(n) /\ Inner(OffsetAfter(n)).error.backtrackable
EndsCommitted(n) ==
    EndsAfter(n) /\ ~Inner(OffsetAfter(n)).error.backtrackable

C13_CommittedRepetition ==
    (pc = "done" /\ parser.t \in {"zeroOrMore", "oneOrMore"}) =>
        \A n \in 0..MaxIterations :
            EndsCommitted(n) =>
                /\ isErr(result.out)
                /\ result.out.error.message =
                      Inner(OffsetAfter(n)).error.message
                /\ DOMAIN result.out = {"variant", "error"}
                /\ DOMAIN result.out.error = {"message", "backtrackable"}

\* zeroOrMore(p) where p matched at least one element before its
\* non-backtrackable failure
C13_Witness ==
    /\ pc = "done"
    /\ parser.t = "zeroOrMore"
    /\ \E n \in 1..MaxIterations : EndsCommitted(n)
    /\ isErr(result.out)

C15_Optional ==
    (pc = "done" /\ parser.t = "optional") =>
        /\ result.out =
              Parse(oneOf(<<parser.parser, succeed(parser.defaultValue)>>),
                    source, index)
        /\ isOk(Inner(index)) => result.out = Inner(index)
        /\ (isErr(Inner(index)) /\ Inner(index).error.backtrackable) =>
              result.out = ParseSuccess(parser.defaultValue, index, source)

\* p fails backtrackably at an offset inside the source and the default
\* value is returned at that offset
C15_Witness ==
    /\ pc = "done"
    /\ parser.t = "optional"
    /\ index > 0
    /\ index < Len(source)
    /\ isErr(Inner(index))
    /\ Inner(index).error.backtrackable
    /\ result.out = ParseSuccess(DefaultValue, index, source)

\* C16: when the antecedent of conditional(a, c) fails at the input offset
\* the result is a's failure itself (same message, same flag) and c is not
\* run; when a succeeds c is run at a's end offset, and when both succeed
\* the result is the pair of their values at c's end offset.
C16_Conditional ==
    (pc = "done" /\ parser.t = "conditional") =>
        LET ant == Parse(parser.antecedent, source, index)
        IN /\ isErr(ant) =>
                /\ result.out = ant
                /\ result.calls = << <<1, index>> >>
           /\ isOk(ant) =>
                LET cons == Parse(parser.consequent, source, ant.value.index)
                IN /\ result.calls =
                         << <<1, index>>, <<2, ant.value.index>> >>
                   /\ isOk(cons) =>
                         result.out =
                             ParseSuccess(
                                 Arr(<<ant.value.parsed, cons.value.parsed>>),
                                 cons.value.index, source)

\* the antecedent's failure is non-backtrackable, the consequent would
\* succeed at the offset, and the result is the antecedent's failure with
\* its flag
C16_Witness ==
    /\ pc = "done"
    /\ parser.t = "conditional"
    /\ isErr(Parse(parser.antecedent, source, index))
    /\ ~Parse(parser.antecedent, source, index).error.backtrackable
    /\ isOk(Parse(parser.consequent, source, index))
    /\ result.out = Parse(parser.antecedent, source, index)

\* both parsers succeed and consume input
C16_WitnessOk ==
    /\ pc = "done"
    /\ parser.t = "conditional"
    /\ isOk(result.out)
    /\ result.out.value.index > index + 1

\* C17: map(f, p) succeeds exactly when p succeeds, with the value f(v) at
\* p's end offset and with p's source; a failure of p is returned
\* unchanged; map(identity, p) returns what p returns.
C17_Map ==
    (pc = "done" /\ parser.t = "map") =>
        /\ isOk(result.out) <=> isOk(Inner(index))
        /\ isOk(Inner(index)) =>
              /\ result.out.value.index = Inner(index).value.index
              /\ result.out.value.source = Inner(index).value.source
              /\ DOMAIN result.out.value = {"parsed", "index", "source"}
              /\ parser.func = MaybeJust =>
                    result.out.value.parsed =
                        [variant |-> "Just",
                         value |-> Inner(index).value.parsed]
              /\ parser.func = Identity =>
                    result.out.value.parsed = Inner(index).value.parsed
        /\ isErr(Inner(index)) => result.out = Inner(index)
        /\ parser.func = Identity => result.out = Inner(index)

\* p succeeds and consumes input, f changes the value
C17_Witness ==
    /\ pc = "done"
    /\ parser.t = "map"
    /\ parser.func = MaybeJust
    /\ isOk(Inner(index))
    /\ Inner(index).value.index > index
    /\ isOk(result.out)
    /\ result.out.value.parsed # Inner(index).value.parsed

\* p fails non-backtrackably under map(identity, p)
C17_WitnessErr ==
    /\ pc = "done"
    /\ parser.t = "map"
    /\ parser.func = Identity
    /\ isErr(Inner(index))
    /\ ~Inner(index).error.backtrackable
    /\ result.out = Inner(index)

(***************************************************************************)
(* Properties of the offsets.                                              *)
(***************************************************************************)
\* the end offset of a success as a JavaScript value, read from the result
\* in either of the two shapes a success can have
EndOffset(out) ==
    IF IsIterable(out.value) THEN ElementAt(out.value, 1)
    ELSE Num(out.value.index)

\* a >= n and a <= n in JavaScript for a value a and a number n: false when
\* a is undefined
AtLeast(a, n) == ~IsUndefined(a) /\ a.num >= n
AtMost(a, n) == ~IsUndefined(a) /\ a.num <= n

\* C18: offset monotonicity.  For every primitive and every parser built
\* from the combinators, pratt included, a success returned by
\* parse(source, i) has an end offset at least i, and at most the length of
\* the source when i is within the source.
C18_OffsetMonotone ==
    (pc = "done" /\ isOk(result.out)) =>
        /\ AtLeast(EndOffset(result.out), index)
        /\ index <= Len(source) =>
              AtMost(EndOffset(result.out), Len(source))

\* the same for every parser but pratt
OffsetMonotoneCombinators ==
    (pc = "done" /\ parser.t # "pratt" /\ isOk(result.out)) =>
        /\ result.out.value.index >= index
        /\ index <= Len(source) => result.out.value.index <= Len(source)

(***************************************************************************)
(* Properties of the primitives and of the error position.                 *)
(***************************************************************************)
\* the characters of str from offset i begin with s
BeginsWith(str, i, s) ==
    \A k \in 1..Len(s) : CharAt(str, i + k - 1) = CharAt(s, k - 1)

\* the at most n characters of str from offset i
UpTo(str, i, n) ==
    IF i >= Len(str) \/ n = 0 THEN ""
    ELSE SubSeq(str, i + 1, Min(i + n, Len(str)))

\* sub occurs in str
Contains(str, sub) ==
    \E a \in 1..(Len(str) - Len(sub) + 1) :
        SubSeq(str, a, a + Len(sub) - 1) = sub

\* C19: exact(s).parse(t, i) succeeds exactly when the characters of t from
\* offset i begin with s, with the value s and the end offset i + len(s);
\* otherwise it fails backtrackably and the message names s and the at most
\* len(s) characters of t at i.
C19_Exact ==
    (pc = "done" /\ parser.t = "exact") =>
        LET s == parser.toMatch
        IN /\ isOk(result.out) <=> BeginsWith(source, index, s)
           /\ isOk(result.out) =>
                result.out = ParseSuccess(Str(s), index + Len(s), source)
           /\ ~isOk(result.out) =>
                /\ isErr(result.out)
                /\ result.out.error.backtrackable
                /\ Contains(result.out.error.message,
                            "Expected \"" \o s \o "\" but got \""
                               \o UpTo(source, index, Len(s))
                               \o "\" instead")

\* a failure so near the end of the source that fewer than len(s)
\* characters are left to report
C19_Witness ==
    /\ pc = "done"
    /\ parser.t = "exact"
    /\ index < Len(source)
    /\ index + Len(parser.toMatch) > Len(source)
    /\ isErr(result.out)
    /\ Len(UpTo(source, index, Len(parser.toMatch))) >= 1

\* a success at an offset after the start of the source
C19_WitnessOk ==
    /\ pc = "done"
    /\ parser.t = "exact"
    /\ index > 0
    /\ Len(parser.toMatch) >= 1
    /\ isOk(result.out)

\* the number of newline characters in source[0..i)
NewlinesBefore(i) ==
    Cardinality({k \in 0..(i - 1) : CharAt(source, k) = "\n"})

\* the offset after the last newline before i, 0 when there is none
LineStart(i) ==
    LET newlines == {k \in 0..(i - 1) : CharAt(source, k) = "\n"}
    IN IF newlines = {} THEN 0
       ELSE 1 + CHOOSE k \in newlines : \A j \in newlines : j <= k

\* the header of a failure at offset i
HeaderAt(i) ==
    "Error at (line: " \o ToString(1 + NewlinesBefore(i)) \o ", column: "
       \o ToString(1 + (i - LineStart(i))) \o ")"

\* the message begins with the header, followed by a line break
HasHeader(message, header) ==
    /\ Len(message) > Len(header)
    /\ SubSeq(message, 1, Len(header) + 1) = header \o "\n"

MinusPower == parser.options.infix.op.parsers[1].func.bindingPower
SlashPower == parser.options.infix.op.parsers[2].func.bindingPower
PrefixPower == parser.options.prefix.op.func.bindingPower
PostfixPower == parser.options.postfix.op.func.bindingPower

LeftAssociative(power) == power[2] = power[1] + 1
RightAssociative(power) == power[1] = power[2] + 1

\* the value of a successful parse, read from the result in either of the
\* two shapes a success can have
ParsedValue(out) ==
    IF ~isOk(out) THEN Undefined
    ELSE IF IsIterable(out.value) THEN ElementAt(out.value, 0)
    ELSE out.value.parsed

PrattDone == pc = "done" /\ parser.t = "pratt"

\* the optional parser `field` of an options member matches at offset i
MatchesAt(member, field, i) ==
    member.defined /\ isOk(Parse(member[field], source, i))

\* C3: a chain of one infix operator folds to the left when its binding
\* power is (n, n+1) and to the right when it is (n+1, n).
C3_Associativity ==
    (PrattDone /\ index = 0) =>
        /\ (source = "1 - 2 - 3 - 4" /\ LeftAssociative(MinusPower)) =>
              ParsedValue(result.out) = Str("(- (- (- 1 2) 3) 4)")
        /\ (source = "1 - 2 - 3 - 4" /\ RightAssociative(MinusPower)) =>
              ParsedValue(result.out) = Str("(- 1 (- 2 (- 3 4)))")
        /\ (source = "1 - 2 - 3" /\ LeftAssociative(MinusPower)) =>
              ParsedValue(result.out) = Str("(- (- 1 2) 3)")
        /\ (source = "1 - 2 - 3" /\ RightAssociative(MinusPower)) =>
              ParsedValue(result.out) = Str("(- 1 (- 2 3))")

\* C4: of two left-associative infix operators the one with the higher
\* binding power takes the operand between them.
C4_Precedence ==
    (PrattDone /\ index = 0 /\ LeftAssociative(MinusPower)
       /\ LeftAssociative(SlashPower)) =>
        /\ (source = "1 - 2 / 3" /\ MinusPower[1] < SlashPower[1]) =>
              ParsedValue(result.out) = Str("(- 1 (/ 2 3))")
        /\ (source = "1 / 2 - 3" /\ MinusPower[1] < SlashPower[1]) =>
              ParsedValue(result.out) = Str("(- (/ 1 2) 3)")
        /\ (source = "1 - 2 / 3" /\ MinusPower[1] > SlashPower[1]) =>
              ParsedValue(result.out) = Str("(/ (- 1 2) 3)")
        /\ (source = "1 / 2 - 3" /\ MinusPower[1] > SlashPower[1]) =>
              ParsedValue(result.out) = Str("(/ 1 (- 2 3))")

\* C5: a postfix operator whose binding power is at least that of the
\* prefix operator is applied to the operand first; a weaker one is applied
\* to the prefixed operand.
C5_PrefixPostfix ==
    (PrattDone /\ index = 0 /\ source = "+3!"
       /\ parser.options.prefix.defined /\ parser.options.postfix.defined) =>
        /\ PostfixPower >= PrefixPower =>
              ParsedValue(result.out) = Str("(+ (! 3))")
        /\ PostfixPower < PrefixPower =>
              ParsedValue(result.out) = Str("(! (+ 3))")

\* C6: the content of a scope is parsed with minBindingPower 0 and its
\* value becomes the operand.
C6_Scope ==
    (PrattDone /\ index = 0 /\ parser.options.scope.defined
       /\ SlashPower = <<3, 4>>) =>
        /\ source = "{1 / 2}" => ParsedValue(result.out) = Str("(/ 1 2)")
        /\ source = "1 / {2 / 3} / 4" =>
              ParsedValue(result.out) = Str("(/ (/ 1 (/ 2 3)) 4)")
        /\ source = "1 / {2 / 3 / 4}" =>
              ParsedValue(result.out) = Str("(/ 1 (/ (/ 2 3) 4))")

\* C7: when input remains after the leaf operand and neither the postfix
\* nor the scope-end parser matches at the cursor, a failure of the infix
\* parser at the cursor is the result of the whole parse.
C7_InfixRequired ==
    PrattDone =>
        \A cursor \in 0..Len(source) :
            ( /\ ~MatchesAt(parser.options.prefix, "op", index)
              /\ ~MatchesAt(parser.options.scope, "scopeBegin", index)
              /\ isOk(Parse(parser.left, source, index))
              /\ cursor = Parse(parser.left, source, index).value.index
              /\ cursor < Len(source)
              /\ ~MatchesAt(parser.options.postfix, "op", cursor)
              /\ ~MatchesAt(parser.options.scope, "scopeEnd", cursor)
              /\ isErr(Parse(parser.options.infix.op, source, cursor)) )
            => result.out = Parse(parser.options.infix.op, source, cursor)

(***************************************************************************)
(* Properties of the error context block.                                  *)
(***************************************************************************)
\* str ends with suffix
EndsWith(str, suffix) ==
    /\ Len(str) >= Len(suffix)
    /\ SubSeq(str, Len(str) - Len(suffix) + 1, Len(str)) = suffix

\* the number of characters shown before offset i: the characters of the
\* current line before i, at most 10
PrefixLength(i) == Min(i - LineStart(i), 10)

\* the offset of the first newline at or after i, the length of the source
\* when there is none
NextNewline(i) ==
    LET newlines == {k \in i..(Len(source) - 1) : CharAt(source, k) = "\n"}
    IN IF newlines = {} THEN Len(source)
       ELSE CHOOSE k \in newlines : \A j \in newlines : k <= j

\* the excerpt line for a failure at offset i
Excerpt(i) ==
    LET from == i - PrefixLength(i)
        to == Min(i + 10, NextNewline(i))
    IN IF to <= from THEN "" ELSE SubSeq(source, from + 1, to)

\* C21: the context block of a failure at offset i with column C is the
\* excerpt line, made of the k = min(C-1, 10) characters before i on the
\* current line and the up to 10 characters from i on, cut at the first
\* newline from the offset on, and a second line of exactly k spaces and a
\* caret, which so stands under the character at offset i.
C21_ContextBlock ==
    (pc = "done" /\ parser.t \in {"exact", "fromRegExp"}
       /\ isErr(result.out) /\ index <= Len(source)) =>
        EndsWith(result.out.error.message,
                 "\n\n" \o Excerpt(index) \o "\n"
                    \o Spaces(PrefixLength(index)) \o "^")

(***************************************************************************)
(* Properties of the number parsers.                                       *)
(***************************************************************************)
\* the characters b .. e-1 of text are a lone 0, or a non-zero digit
\* followed by digits
IsIntegerBody(text, b, e) ==
    \/ e = b + 1 /\ CharAt(text, b) = "0"
    \/ /\ e > b
       /\ CharAt(text, b) \in NonZeroDigit
       /\ \A k \in (b + 1)..(e - 1) : CharAt(text, k) \in Digit

\* the characters from e on are a dot followed by one or more digits
IsFraction(text, e) ==
    /\ CharAt(text, e) = "."
    /\ Len(text) >= e + 2
    /\ \A k \in (e + 1)..(Len(text) - 1) : CharAt(text, k) \in Digit

\* text has the form [sign] integer body [fraction]
IsNumberText(text) ==
    LET b == IF CharAt(text, 0) \in {"+", "-"} THEN 1 ELSE 0
    IN \E e \in (b + 1)..Len(text) :
          /\ IsIntegerBody(text, b, e)
          /\ e = Len(text) \/ IsFraction(text, e)

\* text has the form [sign] integer body
IsIntegerText(text) ==
    LET b == IF CharAt(text, 0) \in {"+", "-"} THEN 1 ELSE 0
    IN Len(text) > b /\ IsIntegerBody(text, b, Len(text))

\* the lengths of the prefixes of the source at offset i that are number
\* texts, and the longest of them (0 when there is none)
NumberPrefixes(i) ==
    {n \in 1..(Len(source) - i) : IsNumberText(UpTo(source, i, n))}
LongestNumberPrefix(i) ==
    IF NumberPrefixes(i) = {} THEN 0
    ELSE CHOOSE n \in NumberPrefixes(i) : \A m \in NumberPrefixes(i) : m <= n

IntegerPrefixes(i) ==
    {n \in 1..(Len(source) - i) : IsIntegerText(UpTo(source, i, n))}
LongestIntegerPrefix(i) ==
    IF IntegerPrefixes(i) = {} THEN 0
    ELSE CHOOSE n \in IntegerPrefixes(i) : \A m \in IntegerPrefixes(i) : m <= n

\* C22: numberString at offset i matches the longest prefix of the form
\* [sign] (a lone 0 or a non-zero digit followed by digits) [a dot and one or
\* more digits] and fails when there is none: "01234" gives "0", "0.14159"
\* is matched in full, ".14159" and "+hello" fail.  number succeeds on the
\* same inputs with the same end offsets.
C22_NumberString ==
    /\ (pc = "done" /\ parser = numberString) =>
          LET n == LongestNumberPrefix(index)
          IN /\ n = 0 => isErr(result.out)
             /\ n > 0 => result.out =
                   ParseSuccess(Str(UpTo(source, index, n)), index + n, source)
             /\ (source = "01234" /\ index = 0) =>
                   result.out = ParseSuccess(Str("0"), 1, source)
             /\ (source = "0.14159 hello" /\ index = 0) =>
                   result.out = ParseSuccess(Str("0.14159"), 7, source)
             /\ (source \in {".14159", "+hello"} /\ index = 0) =>
                   isErr(result.out)
    /\ (pc = "done" /\ parser = number) =>
          LET asString == Parse(numberString, source, index)
          IN /\ isOk(result.out) <=> isOk(asString)
             /\ isOk(asString) =>
                   result.out.value.index = asString.value.index
             /\ isErr(asString) => result.out = asString

\* number matches a signed number with a fraction after the start of the
\* source
C22_Witness ==
    /\ pc = "done"
    /\ parser = number
    /\ source = "a-3.25"
    /\ index = 1
    /\ isOk(result.out)
    /\ result.out.value.index = Len(source)

\* numberString stops after a leading 0
C22_WitnessZero ==
    /\ pc = "done"
    /\ parser = numberString
    /\ source = "01234"
    /\ index = 0
    /\ result.out = ParseSuccess(Str("0"), 1, source)

\* the number text matched at offset i goes on after its integer part
HasFraction(i) == LongestNumberPrefix(i) > LongestIntegerPrefix(i)

\* a digit of that fraction is not 0
HasNonZeroFraction(i) ==
    \E k \in (i + LongestIntegerPrefix(i) + 1)
                ..(i + LongestNumberPrefix(i) - 1) :
        CharAt(source, k) \in NonZeroDigit

C23_WitnessFails ==
    /\ pc = "done"
    /\ parser = int
    /\ source = "123.1415 hello"
    /\ index = 0
    /\ isErr(result.out)

IsSuccess(out) ==
    /\ DOMAIN out = {"variant", "value"}
    /\ out.variant = "Ok"
    /\ DOMAIN out.value = {"parsed", "index", "source"}

\* out is a Failure { message, backtrackable } and nothing else
IsFailure(out) ==
    /\ DOMAIN out = {"variant", "error"}
    /\ out.variant = "Err"
    /\ DOMAIN out.error = {"message", "backtrackable"}

\* C24: all failures are values.  Every parse call of every primitive and
\* combinator, pratt included, returns a Success { value, offset, source }
\* or a Failure { message, backtrackable } that carries no partial result,
\* and never throws.
C24_FailuresAreValues ==
    pc = "done" => IsSuccess(result.out) \/ IsFailure(result.out)

\* the same for the calls that return and are not calls of pratt
OutcomesOfCombinators ==
    (pc = "done" /\ parser.t # "pratt" /\ result.out # NoReturn) =>
        IsSuccess(result.out) \/ IsFailure(result.out)

(***************************************************************************)
(* Properties of the commit mark.                                          *)
(***************************************************************************)
\* the first alternative of the current oneOf
First == parser.parsers[1]

\* conditional(a, c) commits at the offset: a succeeds and c fails at a's
\* end offset
Commits(cond) ==
    /\ isOk(Parse(cond.antecedent, source, index))
    /\ isErr(Parse(cond.consequent, source,
                   Parse(cond.antecedent, source, index).value.index))

\* the message of c's failure
CommittedMessage(cond) ==
    Parse(cond.consequent, source,
          Parse(cond.antecedent, source, index).value.index).error.message

\* oneOf(oneOf(conditional(a, c), x), y) where the conditional commits
NestedCommit ==
    /\ pc = "done"
    /\ parser.t = "oneOf"
    /\ Len(parser.parsers) = 2
    /\ First.t = "oneOf"
    /\ Len(First.parsers) = 2
    /\ First.parsers[1].t = "conditional"
    /\ Commits(First.parsers[1])

\* C25: the commit mark is not propagated up through oneOf.  When oneOf
\* stops at a non-backtrackable failure of an alternative, the failure it
\* returns has that message and is backtrackable; in
\* oneOf(oneOf(conditional(a, c), x), y) with a succeeding and c failing the
\* inner oneOf does not run x and the outer oneOf runs y, whose outcome is
\* the result unless y itself fails non-backtrackably.
C25_CommitNotPropagated ==
    /\ (pc = "done" /\ parser.t = "oneOf") =>
          \A k \in 1..Len(parser.parsers) :
              (FailsCommitted(k) /\ \A j \in 1..(k - 1) : FailsBacktrackably(j))
                 => /\ isErr(result.out)
                    /\ result.out.error.message = Arg(k, index).error.message
                    /\ result.out.error.backtrackable
    /\ NestedCommit =>
          /\ Run(First, source, index).calls = CallsUpTo(1, index)
          /\ isErr(Arg(1, index))
          /\ Arg(1, index).error.message = CommittedMessage(First.parsers[1])
          /\ Arg(1, index).error.backtrackable
          /\ result.calls = CallsUpTo(2, index)
          /\ ~FailsCommitted(2) => result.out = Arg(2, index)

\* the nested case where x and y would both succeed: x is skipped and y's
\* success is the result
C25_Witness ==
    /\ NestedCommit
    /\ isOk(Parse(First.parsers[2], source, index))
    /\ isOk(Arg(2, index))
    /\ result.out = Arg(2, index)

\* the parser that a sequence, map or lazy wrapper applies first
Forwarded(wrapper) ==
    CASE wrapper.t = "sequence" -> wrapper.parsers[1]
      [] wrapper.t = "map" -> wrapper.parser
      [] wrapper.t = "lazy" -> wrapper.factory

\* oneOf(w, other) where w is sequence(conditional(a, c), q),
\* map(f, conditional(a, c)) or lazy(conditional(a, c)) and the conditional
\* commits
ForwardedCommit ==
    /\ pc = "done"
    /\ parser.t = "oneOf"
    /\ Len(parser.parsers) = 2
    /\ First.t \in {"sequence", "map", "lazy"}
    /\ Forwarded(First).t = "conditional"
    /\ Commits(Forwarded(First))

\* C26: sequence, map and lazy forward a non-backtrackable failure with its
\* flag.  Applied on their own they return the failure of the parser they
\* applied unchanged; oneOf(sequence(conditional(a, c), q), other),
\* oneOf(map(f, conditional(a, c)), other) and
\* oneOf(lazy(conditional(a, c)), other), with a succeeding and c failing,
\* fail with c's message without running other.
C26_CommitForwarded ==
    /\ (pc = "done" /\ parser.t = "map" /\ isErr(Inner(index)))
          => result.out = Inner(index)
    /\ (pc = "done" /\ parser.t = "lazy"
          /\ isErr(Parse(parser.factory, source, index)))
          => result.out = Parse(parser.factory, source, index)
    /\ (pc = "done" /\ parser.t = "sequence") =>
          \A k \in 1..Len(parser.parsers) :
              (AllSucceedBefore(k) /\ isErr(Arg(k, OffsetBefore(k))))
                 => result.out = Arg(k, OffsetBefore(k))
    /\ ForwardedCommit =>
          /\ isErr(Arg(1, index))
          /\ ~Arg(1, index).error.backtrackable
          /\ Arg(1, index).error.message = CommittedMessage(Forwarded(First))
          /\ result.calls = CallsUpTo(1, index)
          /\ isErr(result.out)
          /\ result.out.error.message = CommittedMessage(Forwarded(First))

\* the sequence form where other would have succeeded at the offset
C26_Witness ==
    /\ ForwardedCommit
    /\ First.t = "sequence"
    /\ isOk(Parse(parser.parsers[2], source, index))
    /\ isErr(result.out)

\* the same for the map form
C26_WitnessMap ==
    /\ ForwardedCommit
    /\ First.t = "map"
    /\ isOk(Parse(parser.parsers[2], source, index))
    /\ isErr(result.out)

(***************************************************************************)
(* Properties of termination.                                              *)
(***************************************************************************)
\* the repeated parser succeeds at offset i without consuming a character
SucceedsInPlace(i) ==
    /\ isOk(Inner(i))
    /\ Inner(i).value.index = i

\* C27: zeroOrMore(p).parse and oneOrMore(p).parse return an outcome after
\* finitely many applications of p, also for a p that can succeed without
\* consuming a character (spaces, succeed(v), optional(q, d), maybe(q)).
C27_RepetitionTerminates ==
    (pc = "done" /\ parser.t \in {"zeroOrMore", "oneOrMore"})
       => result.out # NoReturn

\* a repetition that does not return is one whose parser succeeds in place
\* at the last offset it was applied to
C27_OnlyInPlace ==
    (pc = "done" /\ parser.t \in {"zeroOrMore", "oneOrMore"}
       /\ result.out = NoReturn)
       => SucceedsInPlace(result.calls[Len(result.calls)][2])

\* a repetition whose parser consumes a character in each success returns
C27_ConsumingTerminates ==
    (pc = "done" /\ parser.t \in {"zeroOrMore", "oneOrMore"}
       /\ \A i \in 0..(Len(source) + 1) : ~SucceedsInPlace(i))
       => result.out # NoReturn

\* the parse call ended with a stack overflow
Overflows == isThrown(result.out) /\ result.out.thrown = "RangeError"

\* C28: pratt(...).parse returns an outcome on every source when the leaf,
\* prefix, postfix, infix, scope-begin and scope-end parsers terminate and
\* consume at least one character in each success: the recursion of expr is
\* bounded by the length of the source.
C28_PrattTerminates ==
    PrattDone => ~Overflows

\* the recursion is unbounded only through an opened scope: the scope-begin
\* parser matches at the input offset and again at offset 0
C28_OnlyScope ==
    (PrattDone /\ Overflows) =>
        /\ ~MatchesAt(parser.options.prefix, "op", index)
        /\ MatchesAt(parser.options.scope, "scopeBegin", index)
        /\ MatchesAt(parser.options.scope, "scopeBegin", 0)

\* the scope-end parser matches at the JavaScript value offset
ScopeEndsAt(offset) ==
    /\ ~IsUndefined(offset)
    /\ MatchesAt(parser.options.scope, "scopeEnd", offset.num)

\* C29: a successful top-level pratt parse ends at the end of the source or
\* at a position where the scope-end parser matches, and a scope-end with no
\* open scope-begin ("1}") is left unconsumed instead of being reported as a
\* failure.
C29_PrattPostcondition ==
    /\ (PrattDone /\ isOk(result.out)) =>
          \/ isEof(source, EndOffset(result.out))
          \/ ScopeEndsAt(EndOffset(result.out))
    /\ (PrattDone /\ parser.options.scope.defined /\ source = "1}"
          /\ index = 0) =>
          /\ isOk(result.out)
          /\ ParsedValue(result.out) = Str("1")
          /\ EndOffset(result.out) = Num(1)

\* the first half alone: the offset of a success is the end of the source
\* or a scope-end position
C29_EndOffset ==
    (PrattDone /\ isOk(result.out)) =>
        \/ isEof(source, EndOffset(result.out))
        \/ ScopeEndsAt(EndOffset(result.out))

\* the second half alone: "1}" succeeds
C29_UnopenedScopeEnd ==
    (PrattDone /\ parser.options.scope.defined /\ source = "1}" /\ index = 0)
       => isOk(result.out)

\* the number of scopes left open after text[i..], starting from open of
\* them; -1 when a scope-end closes a scope that was not opened
RECURSIVE OpenScopes(_, _, _)
OpenScopes(text, i, open) ==
    IF i > Len(text) THEN open
    ELSE IF UpTo(text, i - 1, 1) = "{" THEN OpenScopes(text, i + 1, open + 1)
    ELSE IF UpTo(text, i - 1, 1) = "}"
         THEN IF open = 0 THEN -1 ELSE OpenScopes(text, i + 1, open - 1)
    ELSE OpenScopes(text, i + 1, open)

\* the scope tokens of the text are balanced and properly nested
Balanced(text) == OpenScopes(text, 1, 0) = 0

\* the part of the source between the input offset and a JavaScript value
\* offset
Consumed(offset) == SubSeq(source, index + 1, offset.num)

\* C30: in a successful pratt parse the scope-begin and scope-end tokens
\* consumed are balanced and properly nested, and a source whose scope is
\* never closed ("{1", "{1 / 2") fails with the failure of the scope-end
\* parser.
C30_ScopeBalance ==
    /\ (PrattDone /\ parser.options.scope.defined /\ isOk(result.out)) =>
          /\ ~IsUndefined(EndOffset(result.out))
          /\ Balanced(Consumed(EndOffset(result.out)))
    /\ (PrattDone /\ parser.options.scope.defined /\ index = 0
          /\ source \in {"{1", "{1 / 2"}) =>
          result.out = Parse(parser.options.scope.scopeEnd, source,
                             Len(source))

\* the second half alone: an unclosed scope is a failure of the parse
C30_UnclosedScope ==
    (PrattDone /\ parser.options.scope.defined /\ index = 0
       /\ source \in {"{1", "{1 / 2"}) => isErr(result.out)

=============================================================================
